---- MODULE Spec2Model ----
(***************************************************************************)
(* Model of backend/server.js: the two upload routes (POST /upload and     *)
(* POST /api/keyword-match), the multer upload middleware in front of      *)
(* them, the error-handling middleware behind them, and the keyword        *)
(* matcher that the keyword-match route computes inline.                   *)
(*                                                                         *)
(* A text is a sequence of one-character strings.                          *)
(***************************************************************************)
EXTENDS Integers, Sequences, FiniteSets, TLC

(***************************************************************************)
(* Characters.  \w of a JavaScript regular expression is [A-Za-z0-9_];     *)
(* String.prototype.trim removes white space.                              *)
(***************************************************************************)
LowerLetters == {"a", "b", "j", "l", "q", "s", "v"}
UpperLetters == {"A", "B", "S"}
WordChars == LowerLetters \cup UpperLetters \cup {"_", "1"}
WhiteSpace == {" "}
Chars == WordChars \cup WhiteSpace \cup {"-"}

IsWordChar(c) == c \in WordChars

LowerChar(c) ==
  CASE c = "A" -> "a"
    [] c = "B" -> "b"
    [] c = "S" -> "s"
    [] OTHER -> c

\* String.prototype.toLowerCase
ToLowerCase(s) == [i \in 1..Len(s) |-> LowerChar(s[i])]

\* !s.trim() : the string is empty or holds white space only
TrimIsEmpty(s) == \A i \in 1..Len(s) : s[i] \in WhiteSpace

(***************************************************************************)
(* s.split(/\W+/): the pieces of s between the maximal runs of non-word    *)
(* characters.  A separator run at the start or at the end of s leaves an  *)
(* empty piece there, and the empty string splits into one empty piece.    *)
(***************************************************************************)
RunsOf(s, starts, ends) ==
  [k \in 1..Len(starts) |-> SubSeq(s, starts[k], ends[k])]

SplitNonWord(s) ==
  LET n == Len(s)
      IsStart(i) == IsWordChar(s[i]) /\ (i = 1 \/ ~IsWordChar(s[i - 1]))
      IsEnd(i) == IsWordChar(s[i]) /\ (i = n \/ ~IsWordChar(s[i + 1]))
      runs == RunsOf(s, SelectSeq([i \in 1..n |-> i], IsStart),
                     SelectSeq([i \in 1..n |-> i], IsEnd))
      atStart == IF IsWordChar(s[1]) THEN <<>> ELSE << <<>> >>
      atEnd == IF IsWordChar(s[n]) THEN <<>> ELSE << <<>> >>
  IN  IF n = 0 THEN << <<>> >> ELSE atStart \o runs \o atEnd

\* Array.prototype.includes
Includes(seq, w) == \E i \in 1..Len(seq) : seq[i] = w

\* arr.slice(0, n)
SliceFrom0(seq, n) == SubSeq(seq, 1, IF Len(seq) < n THEN Len(seq) ELSE n)

(***************************************************************************)
(* The keyword matcher, lines 183-191.  Array.prototype.filter is          *)
(* SelectSeq.                                                              *)
(***************************************************************************)
MinWordLen == 2
MissingCap == 20

\* the filter keeps the words of more than three characters
LongerThanThree(w) == Len(w) > 3

LongEnough(w) == Len(w) > MinWordLen

JobWords(jobDescription) ==
  SelectSeq(SplitNonWord(ToLowerCase(jobDescription)), LongEnough)

ResumeWords(resumeText) == SplitNonWord(ToLowerCase(resumeText))

MissingWords(jobWords, resumeWords) ==
  LET NotInResume(w) == w # <<>> /\ ~Includes(resumeWords, w)
  IN  SelectSeq(jobWords, NotInResume)

(***************************************************************************)
(* Math.round(((n - m) / n) * 100) for 0 <= m <= n, n > 0, in IEEE-754     *)
(* doubles.  Math.round gives the nearest integer, a half rounded up.  The *)
(* quotient and the product are each rounded to a double, so a value that  *)
(* is exactly k + 1/2 can come out just below it and round to k.  The      *)
(* exact value is k + 1/2 when 200 * (n - m) / n is an odd integer t, and  *)
(* then the doubles depend on t alone: (t / 200) * 100 evaluates below     *)
(* t / 2 for the four values of HalfRoundedDown and to t / 2 exactly for   *)
(* every other odd t below 200.                                            *)
(***************************************************************************)
HalfRoundedDown == {29, 57, 113, 115}

RoundPercent(n, m) ==
  LET t == (n - m) * 200
  IN  IF t % n = 0 /\ (t \div n) \in HalfRoundedDown
      THEN (t \div n - 1) \div 2
      ELSE (t + n) \div (2 * n)

\* the score counts the words reported, not the words missing
MatchScoreOfReported(jobWords, missing) ==
  IF Len(jobWords) # 0
  THEN RoundPercent(Len(jobWords), Len(SliceFrom0(missing, 20)))
  ELSE 0

\* no job word to look for counts as a full match
MatchScoreFullWhenEmpty(jobWords, missing) ==
  IF Len(jobWords) # 0 THEN RoundPercent(Len(jobWords), Len(missing)) ELSE 100

MatchScore(jobWords, missing) ==
  IF Len(jobWords) # 0 THEN RoundPercent(Len(jobWords), Len(missing)) ELSE 0

\* every missing word is reported
ReportedUncapped(missing) == missing

ReportedMissing(missing) == SliceFrom0(missing, MissingCap)

KeywordMatch(resumeText, jobDescription) ==
  LET jobWords == JobWords(jobDescription)
      resumeWords == ResumeWords(resumeText)
      missing == MissingWords(jobWords, resumeWords)
  IN  [matchScore |-> MatchScore(jobWords, missing),
       missing |-> ReportedMissing(missing)]

(***************************************************************************)
(* The server.  uploads is the upload directory: the file of each name is  *)
(* absent (0) or holds the document sent with a request (its id).  req     *)
(* holds each request's progress: what the upload middleware left in       *)
(* req.file and req.body, the handler's locals (gone once the handler has  *)
(* returned), the response sent and what became of the unlink.             *)
(***************************************************************************)
VARIABLES uploads, req

vars == <<uploads, req>>

ReqIds == {1, 2}
MaxTime == 1
MaxRand == 1
OriginalNames == {"cv"}

Pdf == "application/pdf"
Docx == "application/vnd.openxmlformats-officedocument.wordprocessingml.document"
MsWord == "application/msword"
TextPlain == "text/plain"
MimeTypes == {Pdf, Docx, MsWord, TextPlain}

\* fileFilter's list, lines 58-62
allowedTypes == {Pdf, Docx, MsWord}

Routes == {"/upload", "/api/keyword-match"}

\* the names the storage engine can give a file, line 50-51
FileNames == (0..MaxTime) \X (0..MaxRand) \X OriginalNames

\* no response sent yet; match is <<>> or holds the one match result
NoResponse ==
  [status |-> 0, error |-> "", details |-> "", message |-> "",
   analysis |-> FALSE, match |-> <<>>]

\* res.status(status).json({ error, details })
ErrorJson(status, error, details) ==
  [NoResponse EXCEPT !.status = status, !.error = error, !.details = details]

\* the error handling middleware, lines 212-218
ErrorMiddleware(errMessage) ==
  [NoResponse EXCEPT !.status = 500, !.error = "Internal server error",
                     !.message = errMessage]

Idle ==
  [pc |-> "idle", route |-> "", declared |-> "", file |-> <<>>,
   jobDescription |-> <<>>,
   dataBuffer |-> 0, resumeText |-> <<>>, caught |-> "", res |-> NoResponse,
   unlink |-> "none"]

Init ==
  /\ uploads = [f \in FileNames |-> 0]
  /\ req = [r \in ReqIds |-> Idle]

(***************************************************************************)
(* upload.single("resume"), lines 45-69, run in front of both routes.  up  *)
(* is <<>> when the request carries no file, else the one file sent.  The  *)
(* file filter refuses a media type outside allowedTypes before anything   *)
(* is stored; a file over the size limit is stored and removed again.      *)
(* declared keeps the media type the request gave for its file.  The file  *)
(* is named after now, what Date.now() gives, rnd, what                    *)
(* Math.round(Math.random() * 1E9) gives, and the file's original name;    *)
(* neither number is tied to any other request's.                          *)
(* Either error skips the route handler and reaches the error handling     *)
(* middleware.  The handlers look for the file in __dirname/uploads and    *)
(* the storage engine writes to uploads/ of the working directory: the     *)
(* server is taken to run in its own directory, where the two agree.       *)
(***************************************************************************)
Multer(r, route, up, now, rnd, jd) ==
  /\ req[r].pc = "idle"
  /\ LET refused == [req[r] EXCEPT
                      !.route = route,
                      !.declared = IF up = <<>> THEN "" ELSE up[1].mimetype]
         arrived == [refused EXCEPT !.jobDescription = jd]
         filename == <<now, rnd, up[1].originalname>>
     IN  IF up = <<>>
         THEN /\ req' = [req EXCEPT ![r] = [arrived EXCEPT !.pc = "handler"]]
              /\ UNCHANGED uploads
         ELSE IF up[1].mimetype \notin allowedTypes
         THEN /\ req' = [req EXCEPT ![r] = [refused EXCEPT
                     !.pc = "done",
                     !.res = ErrorMiddleware("Invalid file type. Only PDF and DOCX allowed.")]]
              /\ UNCHANGED uploads
         ELSE IF up[1].tooLarge
         THEN /\ req' = [req EXCEPT ![r] = [refused EXCEPT
                     !.pc = "done", !.res = ErrorMiddleware("File too large")]]
              /\ uploads' = [uploads EXCEPT ![filename] = 0]
         ELSE /\ req' = [req EXCEPT ![r] = [arrived EXCEPT
                     !.pc = "handler",
                     !.file = <<[mimetype |-> up[1].mimetype, filename |-> filename]>>]]
              /\ uploads' = [uploads EXCEPT ![filename] = r]

\* path.join(__dirname, "uploads", req.file.filename), lines 85 and 160
uploadPath(r) == req[r].file[1].filename

(***************************************************************************)
(* Both handlers up to their first await, lines 81-88 and 156-163: the     *)
(* answer to a request without a file, else the start of fs.readFile.      *)
(***************************************************************************)
HandlerStart(r) ==
  /\ req[r].pc = "handler"
  /\ IF req[r].file = <<>>
     THEN req' = [req EXCEPT ![r].pc = "done",
                             ![r].res = ErrorJson(400, "No file uploaded", "")]
     ELSE req' = [req EXCEPT ![r].pc = "readFile"]
  /\ UNCHANGED uploads

(***************************************************************************)
(* The keyword-match handler once resumeText is set, lines 177-191:        *)
(* req.body.jobDescription || "", the check that it is not blank, the      *)
(* match and res.json.  jd is <<>> when the form had no such field.        *)
(***************************************************************************)
MatchResponse(resumeText, jd) ==
  LET jobDescription == IF jd = <<>> THEN <<>> ELSE jd[1]
  IN  IF TrimIsEmpty(jobDescription)
      THEN ErrorJson(400, "Job description is required", "")
      ELSE [NoResponse EXCEPT !.status = 200,
                              !.match = <<KeywordMatch(resumeText, jobDescription)>>]

\* the catch blocks answer with a client error
CaughtAsClientError(r, errMessage) ==
  IF req[r].route = "/upload"
  THEN ErrorJson(400, "Server error while analyzing resume.", errMessage)
  ELSE ErrorJson(400, "Something went wrong on server", errMessage)

\* the catch blocks, lines 139-144 and 192-197
Caught(r, errMessage) ==
  IF req[r].route = "/upload"
  THEN ErrorJson(500, "Server error while analyzing resume.", errMessage)
  ELSE ErrorJson(500, "Something went wrong on server", errMessage)

(***************************************************************************)
(* fs.readFile returns, lines 88-102 and 163-175.  It throws when no file  *)
(* has the name or the read fails (ioOk is FALSE); else the handler takes  *)
(* the extractor of the declared media type.                               *)
(***************************************************************************)
ReadFile(r, ioOk) ==
  /\ req[r].pc = "readFile"
  /\ IF uploads[uploadPath(r)] = 0 \/ ~ioOk
     THEN req' = [req EXCEPT ![r].pc = "finally",
                             ![r].caught = "readFile failed",
                             ![r].res = Caught(r, "readFile failed")]
     ELSE IF req[r].file[1].mimetype \in {Pdf, Docx, MsWord}
     THEN req' = [req EXCEPT ![r].pc = "extract",
                             ![r].dataBuffer = uploads[uploadPath(r)]]
     ELSE IF req[r].route = "/upload"
     THEN req' = [req EXCEPT
            ![r].pc = "finally",
            ![r].dataBuffer = uploads[uploadPath(r)],
            ![r].res = ErrorJson(400, "Unsupported file type. Upload a PDF or DOCX.", "")]
     ELSE req' = [req EXCEPT
            ![r].pc = "finally",
            ![r].dataBuffer = uploads[uploadPath(r)],
            ![r].res = MatchResponse(<<>>, req[r].jobDescription)]
  /\ UNCHANGED uploads

(***************************************************************************)
(* pdfParse or mammoth.extractRawText returns, lines 92-106 and 167-191.   *)
(* out is <<>> when the extractor throws, else holds the text it gives.    *)
(* /upload refuses a blank text and else starts the chat completion;       *)
(* /api/keyword-match goes on to the match whatever the text is.           *)
(***************************************************************************)
\* the answers sent after the extraction return past the finally block
ExtractReturnsEarly(r, out) ==
  /\ req[r].pc = "extract"
  /\ IF out = <<>>
     THEN req' = [req EXCEPT ![r].pc = "finally",
                             ![r].caught = "extraction failed",
                             ![r].res = Caught(r, "extraction failed")]
     ELSE IF req[r].route = "/upload"
     THEN IF TrimIsEmpty(out[1])
          THEN req' = [req EXCEPT
                 ![r].pc = "done",
                 ![r].res = ErrorJson(400, "Could not extract text from resume.", "")]
          ELSE req' = [req EXCEPT ![r].pc = "chatCompletion",
                                  ![r].resumeText = out[1]]
     ELSE req' = [req EXCEPT
            ![r].pc = "done",
            ![r].res = MatchResponse(out[1], req[r].jobDescription)]
  /\ UNCHANGED uploads

Extract(r, out) ==
  /\ req[r].pc = "extract"
  /\ IF out = <<>>
     THEN req' = [req EXCEPT ![r].pc = "finally",
                             ![r].caught = "extraction failed",
                             ![r].res = Caught(r, "extraction failed")]
     ELSE IF req[r].route = "/upload"
     THEN IF TrimIsEmpty(out[1])
          THEN req' = [req EXCEPT
                 ![r].pc = "finally",
                 ![r].resumeText = out[1],
                 ![r].res = ErrorJson(400, "Could not extract text from resume.", "")]
          ELSE req' = [req EXCEPT ![r].pc = "chatCompletion",
                                  ![r].resumeText = out[1]]
     ELSE req' = [req EXCEPT
            ![r].pc = "finally",
            ![r].resumeText = out[1],
            ![r].res = MatchResponse(out[1], req[r].jobDescription)]
  /\ UNCHANGED uploads

(***************************************************************************)
(* hf.chatCompletion returns, lines 108-138: it throws, or its reply has   *)
(* no content (outputText is null and the handler throws), or the content  *)
(* is sent as the analysis.                                                *)
(***************************************************************************)
ChatReplies == {"throws", "no content", "content"}

ChatCompletion(r, reply) ==
  /\ req[r].pc = "chatCompletion"
  /\ LET errMessage ==
           CASE reply = "throws" -> "chatCompletion failed"
             [] reply = "no content" -> "No valid response from Hugging Face"
             [] OTHER -> ""
     IN  req' = [req EXCEPT
           ![r].pc = "finally",
           ![r].caught = errMessage,
           ![r].res = IF errMessage # "" THEN Caught(r, errMessage)
                      ELSE [NoResponse EXCEPT !.status = 200, !.analysis = TRUE]]
  /\ UNCHANGED uploads

(***************************************************************************)
(* The finally blocks, lines 145-151 and 198-204, entered after the        *)
(* response was sent: fs.unlink removes the file, or it throws (no file    *)
(* has the name, or ioOk is FALSE) and the error is logged and dropped.    *)
(***************************************************************************)
\* the handler returns with the unlink never started
ReturnedWithoutUnlink(q, outcome) ==
  [q EXCEPT !.pc = "done", !.jobDescription = <<>>, !.dataBuffer = 0,
            !.resumeText = <<>>, !.caught = ""]

Returned(q, outcome) ==
  [q EXCEPT !.pc = "done", !.unlink = outcome, !.jobDescription = <<>>,
            !.dataBuffer = 0, !.resumeText = <<>>, !.caught = ""]

Unlink(r, ioOk) ==
  /\ req[r].pc = "finally"
  /\ IF uploads[uploadPath(r)] # 0 /\ ioOk
     THEN /\ uploads' = [uploads EXCEPT ![uploadPath(r)] = 0]
          /\ req' = [req EXCEPT ![r] = Returned(req[r], "removed")]
     ELSE /\ req' = [req EXCEPT ![r] = Returned(req[r], "failed")]
          /\ UNCHANGED uploads

(***************************************************************************)
(* The requests of the specification Spec: two of them in flight, each on  *)
(* either route, with or without a file.                                   *)
(***************************************************************************)
Sql == <<"s", "q", "l">>
Java == <<"j", "a", "v", "a">>
Blank == <<" ">>

SentFiles ==
  [mimetype : MimeTypes, originalname : OriginalNames, tooLarge : BOOLEAN]

\* no file, or a file declared PDF, DOCX or plain text
SentUploads ==
  {<<>>} \cup {<<f>> : f \in {g \in SentFiles : g.mimetype \in {Pdf, Docx, TextPlain}}}

\* the job descriptions sent: none, or two words
SentJobDescriptions == {<<>>, <<Sql \o <<"-">> \o Java>>}

JobDescriptionsFor(route) ==
  IF route = "/upload" THEN {<<>>} ELSE SentJobDescriptions

\* what an extractor gives: it throws, or a blank or a one-word text
Extracted == {<<>>, <<Blank>>, <<Sql>>}

Next ==
  \/ \E r \in ReqIds, route \in Routes, up \in SentUploads :
       \E now \in 0..MaxTime, rnd \in 0..MaxRand, jd \in JobDescriptionsFor(route) :
         Multer(r, route, up, now, rnd, jd)
  \/ \E r \in ReqIds : HandlerStart(r)
  \/ \E r \in ReqIds, ioOk \in BOOLEAN : ReadFile(r, ioOk)
  \/ \E r \in ReqIds, out \in Extracted : Extract(r, out)
  \/ \E r \in ReqIds, reply \in ChatReplies : ChatCompletion(r, reply)
  \/ \E r \in ReqIds, ioOk \in BOOLEAN : Unlink(r, ioOk)

Spec == Init /\ [][Next]_vars

(***************************************************************************)
(* The requests of the specification MatchSpec: one request to             *)
(* /api/keyword-match, with job descriptions and resume texts that reach   *)
(* every case of the matcher: every short text over ShortChars, every      *)
(* phrase of up to MaxWords words, and the long job descriptions that      *)
(* repeat one word and then another, with more than MissingCap words       *)
(* missing or with enough words for one missing word to round away.        *)
(***************************************************************************)
MaxJobLen == 4
MaxResumeLen == 4
MaxWords == 2

ShortChars == {"a", "A", " "}

ShortTexts(n) == UNION {[1..k -> ShortChars] : k \in 0..n}

UpperSql == <<"S", "Q", "L">>
A_1 == <<"a", "_", "1">>
Words == {Sql, UpperSql, Java, A_1}
Separator == <<"-", " ">>

RECURSIVE JoinWords(_)
JoinWords(ws) ==
  IF ws = <<>> THEN <<>>
  ELSE IF Len(ws) = 1 THEN ws[1]
  ELSE LET half == Len(ws) \div 2
       IN  JoinWords(SubSeq(ws, 1, half)) \o Separator
             \o JoinWords(SubSeq(ws, half + 1, Len(ws)))

Phrases(n) == {JoinWords(ws) : ws \in UNION {[1..k -> Words] : k \in 0..n}}

Repeated(w, k) == [i \in 1..k |-> w]

RunLengths ==
  {<<MissingCap, 1>>, <<MissingCap, MissingCap + 1>>, <<1, MissingCap + 1>>,
   <<10 * MissingCap - 2, 1>>, <<10 * MissingCap - 1, 1>>, <<10 * MissingCap, 1>>,
   <<10 * MissingCap - 1, MissingCap + 2>>, <<23, 17>>}

LongJobDescriptions ==
  {JoinWords(Repeated(Sql, kj[1]) \o Repeated(Java, kj[2])) : kj \in RunLengths}

MatchJobDescriptions ==
  {<<>>} \cup {<<t>> : t \in ShortTexts(MaxJobLen) \cup Phrases(MaxWords)
                                \cup LongJobDescriptions}

\* no file, or a file declared legacy Word or plain text
MatchUploads ==
  {<<>>} \cup {<<f>> : f \in {g \in SentFiles : g.mimetype \in {MsWord, TextPlain}}}

\* the texts an extractor gives (or <<>>: it throws); a long job
\* description meets the phrases of at most one word only
ExtractedTexts == {<<>>} \cup {<<t>> : t \in ShortTexts(MaxResumeLen) \cup Phrases(MaxWords)}

ExtractedWords == {<<>>} \cup {<<t>> : t \in Phrases(1)}

ExtractedFor(jd) ==
  IF jd # <<>> /\ jd[1] \in LongJobDescriptions THEN ExtractedWords ELSE ExtractedTexts

NextMatch ==
  \/ \E up \in MatchUploads, jd \in MatchJobDescriptions :
       Multer(1, "/api/keyword-match", up, 0, 0, jd)
  \/ HandlerStart(1)
  \/ \E ioOk \in BOOLEAN : ReadFile(1, ioOk)
  \/ \E out \in ExtractedFor(req[1].jobDescription) : Extract(1, out)
  \/ \E ioOk \in BOOLEAN : Unlink(1, ioOk)

MatchSpec == Init /\ [][NextMatch]_vars

(***************************************************************************)
(* The claims.                                                             *)
(***************************************************************************)
Responded(r) == req[r].res.status # 0

HasFile(r) == req[r].file # <<>>

\* the file the upload middleware stored for request r is still there
FileExists(r) == HasFile(r) /\ uploads[uploadPath(r)] = r

InFlight(r) == req[r].pc \notin {"idle", "done"}

\* C1 as claimed: once a request has been handled, on whatever exit path,
\* the temporary file stored for it no longer exists.
C1_FileGoneAfterRequest ==
  \A r \in ReqIds : req[r].pc = "done" => ~FileExists(r)

\* C1 as amended: once a request has been handled, the temporary file
\* stored for it no longer exists unless the unlink itself failed; the
\* handler has tried the unlink on every exit path of a request whose file
\* was stored, and a file is in the directory only for a request that the
\* upload middleware passed on with it.
C1_FileGoneUnlessUnlinkFailed ==
  /\ \A r \in ReqIds :
       req[r].pc = "done" /\ HasFile(r) =>
         /\ req[r].unlink \in {"removed", "failed"}
         /\ FileExists(r) => req[r].unlink = "failed"
  /\ \A f \in FileNames :
       uploads[f] # 0 => HasFile(uploads[f]) /\ uploadPath(uploads[f]) = f

\* C1 witness: two requests are done, one answered 200 and one answered
\* 400 after its file was stored, both files removed.
C1_Witness ==
  \E r1, r2 \in ReqIds :
    /\ req[r1].pc = "done" /\ req[r1].res.status = 200 /\ req[r1].unlink = "removed"
    /\ req[r2].pc = "done" /\ req[r2].res.status = 400 /\ req[r2].unlink = "removed"
    /\ \A f \in FileNames : uploads[f] = 0

\* C2 as claimed: in no state has a request that carried a file been
\* answered while its temporary file still exists.
C2_FileGoneBeforeResponse ==
  \A r \in ReqIds : Responded(r) => ~FileExists(r)

\* C2 as amended: for a request whose file was stored, the response is sent
\* first and the unlink is tried after it, before the handler returns: the
\* unlink has been tried exactly when the handler has returned, and then the
\* response has been sent.
C2_UnlinkAfterResponseBeforeReturn ==
  \A r \in ReqIds :
    HasFile(r) =>
      /\ req[r].pc = "done" <=> req[r].unlink # "none"
      /\ req[r].unlink # "none" => Responded(r)
      /\ req[r].pc = "finally" <=> (Responded(r) /\ req[r].unlink = "none")

\* C2 witness: a request has been answered 200 and its file still exists,
\* the unlink not yet tried.
C2_Witness ==
  \E r \in ReqIds :
    /\ req[r].pc = "finally" /\ req[r].res.status = 200
    /\ FileExists(r) /\ req[r].unlink = "none"

\* C3 as claimed: a request to /upload whose file has a declared media type
\* other than PDF, DOCX or legacy Word is answered 400 "Unsupported file
\* type...", never 500.
C3_UnsupportedTypeIs400 ==
  \A r \in ReqIds :
    /\ req[r].route = "/upload"
    /\ req[r].declared \notin {"", Pdf, Docx, MsWord}
    /\ Responded(r)
    => /\ req[r].res.status = 400
       /\ req[r].res.error = "Unsupported file type. Upload a PDF or DOCX."

\* C8 as claimed: two requests in flight never have the same temporary file
\* name, and a request reads only the file stored for itself.
C8_NoSharedFile ==
  /\ \A r1, r2 \in ReqIds :
       r1 # r2 /\ InFlight(r1) /\ InFlight(r2) /\ HasFile(r1) /\ HasFile(r2)
         => uploadPath(r1) # uploadPath(r2)
  /\ \A r \in ReqIds : req[r].dataBuffer \in {0, r}

(***************************************************************************)
(* The vocabulary of the claims about the matcher.  A token of a text is a *)
(* maximal run of word characters, named by the position where it starts   *)
(* and read in lower case.                                                 *)
(***************************************************************************)
TokenStarts(s) ==
  {i \in 1..Len(s) : IsWordChar(s[i]) /\ (i = 1 \/ ~IsWordChar(s[i - 1]))}

TokenEnd(s, i) ==
  CHOOSE j \in i..Len(s) :
    /\ \A k \in i..j : IsWordChar(s[k])
    /\ j = Len(s) \/ ~IsWordChar(s[j + 1])

TokenAt(s, i) == ToLowerCase(SubSeq(s, i, TokenEnd(s, i)))

\* the tokens of the job description of more than minLen characters
Qualifying(jd, minLen) == {i \in TokenStarts(jd) : TokenEnd(jd, i) - i + 1 > minLen}

ResumeTokens(text) == {TokenAt(text, i) : i \in TokenStarts(text)}

\* the qualifying tokens of the job description that the resume lacks
MissingIn(jd, tokens, minLen) ==
  {i \in Qualifying(jd, minLen) : TokenAt(jd, i) \notin tokens}

Lacking(jd, text, minLen) == MissingIn(jd, ResumeTokens(text), minLen)

\* the k-th position of a set of positions
Kth(S, k) == CHOOSE i \in S : Cardinality({j \in S : j < i}) = k - 1

OnKeywordMatch(r) == req[r].route = "/api/keyword-match"

\* request r has been sent a match result and its handler has not returned
Matched(r) == req[r].pc = "finally" /\ req[r].res.match # <<>>

ResultOf(r) == req[r].res.match[1]

JobDescriptionOf(r) == req[r].jobDescription[1]

\* req.body.jobDescription is absent, empty or white space
BlankJobDescription(r) ==
  req[r].jobDescription = <<>> \/ TrimIsEmpty(req[r].jobDescription[1])

\* C7: every match result sent is well-formed: matchScore is an integer
\* from 0 to 100, and missing has at most 20 entries and no more entries
\* than the job description has qualifying tokens.
C7_ResultWellFormed ==
  \A r \in ReqIds :
    Matched(r) =>
      /\ ResultOf(r).matchScore \in 0..100
      /\ Len(ResultOf(r).missing) <= 20
      /\ Len(ResultOf(r).missing) <= Cardinality(Qualifying(JobDescriptionOf(r), 2))

\* C7 witness: a result whose missing list was cut to 20 entries, with a
\* score strictly between 0 and 100.
C7_Witness ==
  \E r \in ReqIds :
    /\ Matched(r)
    /\ Len(ResultOf(r).missing) = 20
    /\ Cardinality(Lacking(JobDescriptionOf(r), req[r].resumeText, 2)) > 20
    /\ ResultOf(r).matchScore \in 1..99

\* C10: matchScore is computed from all the missing job tokens, as many as
\* they are (it is within a half of the exact percentage of qualifying
\* tokens found), and the missing list is the first 20 of them in the order
\* of the job description, repeated tokens repeated.
C10_ScoreFromAllMissingListFirst20 ==
  \A r \in ReqIds :
    Matched(r) =>
      LET jd == JobDescriptionOf(r)
          n == Cardinality(Qualifying(jd, 2))
          lacking == Lacking(jd, req[r].resumeText, 2)
          m == Cardinality(lacking)
          score == ResultOf(r).matchScore
          missing == ResultOf(r).missing
      IN  /\ n > 0 => /\ 2 * n * score <= 200 * (n - m) + n
                      /\ 2 * n * score >= 200 * (n - m) - n
          /\ Len(missing) = IF m < 20 THEN m ELSE 20
          /\ \A k \in 1..Len(missing) : missing[k] = TokenAt(jd, Kth(lacking, k))

\* C10 witness: more than 20 tokens are missing, the list holds 20 with a
\* token repeated, and the score is that of all the missing tokens: below
\* what the 20 reported would give.
C10_Witness ==
  \E r \in ReqIds :
    /\ Matched(r)
    /\ LET jd == JobDescriptionOf(r)
           n == Cardinality(Qualifying(jd, 2))
           m == Cardinality(Lacking(jd, req[r].resumeText, 2))
           missing == ResultOf(r).missing
       IN  /\ m > 20
           /\ Len(missing) = 20
           /\ missing[1] = missing[2]
           /\ ResultOf(r).matchScore > 0
           /\ 2 * n * ResultOf(r).matchScore < 200 * (n - 20) - n

\* C5 as claimed: matchScore is 100 if and only if every job token of more
\* than 3 characters appears in the resume token set (stated for the job
\* descriptions that have such a token).
C5_FullScoreIffAllLongerThan3Found ==
  \A r \in ReqIds :
    Matched(r) /\ Qualifying(JobDescriptionOf(r), 3) # {} =>
      (ResultOf(r).matchScore = 100
         <=> Lacking(JobDescriptionOf(r), req[r].resumeText, 3) = {})

\* C5 as amended: matchScore is 100 if and only if the job description has
\* at least one token of more than 2 characters and at most one in 200 of
\* those tokens (each occurrence counted) is absent from the resume token
\* set; for fewer than 200 such tokens: every one of them is in the resume.
C5_FullScoreIffLongerThan2Found ==
  \A r \in ReqIds :
    Matched(r) =>
      LET n == Cardinality(Qualifying(JobDescriptionOf(r), 2))
          m == Cardinality(Lacking(JobDescriptionOf(r), req[r].resumeText, 2))
      IN  /\ ResultOf(r).matchScore = 100 <=> (n > 0 /\ 200 * m <= n)
          /\ n < 200 => (ResultOf(r).matchScore = 100 <=> (n > 0 /\ m = 0))

\* C5 witness: a score of 100 for a job description whose token has
\* exactly 3 characters and is in the resume in another case.
C5_Witness ==
  \E r \in ReqIds :
    /\ Matched(r)
    /\ ResultOf(r).matchScore = 100
    /\ \E i \in TokenStarts(JobDescriptionOf(r)) :
         /\ TokenEnd(JobDescriptionOf(r), i) - i + 1 = 3
         /\ SubSeq(JobDescriptionOf(r), i, i + 2) \notin ResumeTokens(req[r].resumeText)
         /\ TokenAt(JobDescriptionOf(r), i) \in ResumeTokens(req[r].resumeText)

\* a score of 100 although a qualifying token is missing: 200 or more
\* qualifying tokens, at most one in 200 of them missing
RoundedToFull ==
  \E r \in ReqIds :
    /\ Matched(r)
    /\ ResultOf(r).matchScore = 100
    /\ Lacking(JobDescriptionOf(r), req[r].resumeText, 2) # {}

\* the handler of request r has answered without catching an exception
AnsweredWithoutException(r) ==
  req[r].pc = "finally" /\ Responded(r) /\ req[r].caught = ""

\* C6 as claimed: an empty job description yields the match result with
\* matchScore 0 and an empty missing list.
C6_EmptyJobDescriptionScoresZero ==
  \A r \in ReqIds :
    /\ OnKeywordMatch(r)
    /\ AnsweredWithoutException(r)
    /\ req[r].jobDescription = << <<>> >>
    => req[r].res.match = <<[matchScore |-> 0, missing |-> <<>>]>>

\* C6 as amended: an empty, blank or absent job description is refused with
\* 400 "Job description is required" and yields no match result; a job
\* description that is not blank and has no token of more than 2 characters
\* (the zero-token case) yields matchScore 0 and an empty missing list.
C6_BlankRefusedNoTokenScoresZero ==
  \A r \in ReqIds :
    OnKeywordMatch(r) /\ AnsweredWithoutException(r) =>
      /\ BlankJobDescription(r) =>
           /\ req[r].res.status = 400
           /\ req[r].res.error = "Job description is required"
           /\ req[r].res.match = <<>>
      /\ ~BlankJobDescription(r) /\ Qualifying(JobDescriptionOf(r), 2) = {} =>
           /\ req[r].res.status = 200
           /\ req[r].res.match = <<[matchScore |-> 0, missing |-> <<>>]>>

\* C6 witness: a job description with tokens, none of more than 2
\* characters, met a resume that lacks them and was answered with a result.
C6_Witness ==
  \E r \in ReqIds :
    /\ Matched(r)
    /\ TokenStarts(JobDescriptionOf(r)) # {}
    /\ Qualifying(JobDescriptionOf(r), 2) = {}
    /\ Lacking(JobDescriptionOf(r), req[r].resumeText, 0) # {}

\* C9 as claimed: on /api/keyword-match, when the extraction succeeds and
\* gives white space only or no text at all, the request is refused with an
\* error and the matcher gives no 200 result.
C9_BlankResumeRefused ==
  \A r \in ReqIds :
    /\ OnKeywordMatch(r)
    /\ AnsweredWithoutException(r)
    /\ req[r].dataBuffer # 0
    /\ TrimIsEmpty(req[r].resumeText)
    => req[r].res.status >= 400 /\ req[r].res.match = <<>>

\* C4 as claimed: on /api/keyword-match, no file attached, a job description
\* missing or blank, and a failing text extraction each give 400, and 500 is
\* given only for an unexpected internal exception.
C4_ThreeFailuresAre400 ==
  \A r \in ReqIds :
    OnKeywordMatch(r) /\ Responded(r) =>
      /\ req[r].pc = "done" /\ req[r].declared = "" => req[r].res.status = 400
      /\ req[r].pc # "done" =>
           /\ req[r].caught = "" /\ BlankJobDescription(r) => req[r].res.status = 400
           /\ req[r].caught = "extraction failed" => req[r].res.status = 400
           /\ req[r].res.status = 500 => req[r].caught # ""

\* C4 as amended: on /api/keyword-match, no file attached gives 400, and so
\* does a missing or blank job description once the file was read and its
\* text extracted; a failing text extraction gives 500 with the error's
\* message as details; 500 is given only when an exception was caught in
\* the handler or the upload middleware refused the request.
C4_ExtractionFailureIs500 ==
  \A r \in ReqIds :
    OnKeywordMatch(r) /\ Responded(r) =>
      /\ req[r].pc = "done" /\ req[r].declared = "" =>
           req[r].res.status = 400 /\ req[r].res.error = "No file uploaded"
      /\ req[r].pc # "done" =>
           /\ req[r].caught = "" /\ BlankJobDescription(r) => req[r].res.status = 400
           /\ req[r].caught = "extraction failed" =>
                req[r].res.status = 500 /\ req[r].res.details = "extraction failed"
           /\ req[r].res.status = 500 => req[r].caught # ""
      /\ req[r].res.status = 500 /\ ~HasFile(r) => req[r].res.message # ""

\* C4 witness: the extraction failed for a request that sent a job
\* description with qualifying tokens, and the answer is 500.
C4_Witness ==
  \E r \in ReqIds :
    /\ OnKeywordMatch(r)
    /\ req[r].pc = "finally"
    /\ req[r].caught = "extraction failed"
    /\ req[r].res.status = 500
    /\ ~BlankJobDescription(r)
    /\ Qualifying(JobDescriptionOf(r), 2) # {}

====
